---- MODULE Spec2Model ----
(***************************************************************************)
(* Model of geektrust.js: the Geekdemy cart (GeekdemyCart), its pricing    *)
(* strategies, the command handlers and main's read / process / print      *)
(* loop.                                                                   *)
(*                                                                         *)
(* Amounts are JavaScript numbers in the source.  Here every amount is an  *)
(* integer number of hundredths, the two digits printBill prints with      *)
(* toFixed(2).  Unit prices, fees and rates are such that every amount the *)
(* program computes is, exactly, a multiple of 0.05: the arithmetic on     *)
(* hundredths is exact, and the floating-point error of the source is far  *)
(* below the half hundredth that would change a printed digit.             *)
(* Quantity tokens are numeric strings, for which parseInt yields a number.*)
(***************************************************************************)
EXTENDS Integers, Sequences, FiniteSets, TLC

\* ------------------------------------------------------------------ bounds
\* The number of input lines main reads from the file.
MaxLines == 3

\* ------------------------------------------------------------------ constants
PRO_MEMBERSHIP_FEE == 200
MIN_DISCOUNTABLE_QUANTITY == 4
DEFAULT_ENROLLMENT_FEE_THRESHOLD == 6666
DEFAULT_ENROLLMENT_FEE == 500
\* hundredths per unit of currency: toFixed(2)
Cents == 100
\* the seed of the reduce in calculateMinimumDiscountableProgrammeCost:
\* larger than every amount, so Math.min(Infinity, x) = x
Infinity == 1000000000

\* JavaScript's null and undefined
Null == "<null>"
Undefined == "<undefined>"

\* ------------------------------------------------------------------ input
\* A line is modelled by its tokens, line.split(' ').
TypeTokens == {"CERTIFICATION", "DEGREE", "DIPLOMA", "MASTERS"}
QuantityTokens == {"-1", "2", "4"}
CouponTokens == {"DEAL_G20", "Deal_g5", "FOO"}

AddLines == {<<"ADD_PROGRAMME", t, q>> : t \in TypeTokens, q \in QuantityTokens}
\* ADD_PROGRAMME lines with the quantity 0
ZeroAddLines == {<<"ADD_PROGRAMME", t, "0">> : t \in TypeTokens}
\* an ADD_PROGRAMME line without its quantity
ShortAddLines == {<<"ADD_PROGRAMME", "DEGREE">>}
ProLines == {<<"PRO_MEMBERSHIP">>}
CouponLines == {<<"APPLY_COUPON", c>> : c \in CouponTokens}
\* APPLY_COUPON with no name
BareCouponLines == {<<"APPLY_COUPON">>}
\* APPLY_COUPON with a name and a trailing blank: split(' ') gives 3 tokens
LongCouponLines == {<<"APPLY_COUPON", "DEAL_G20", "">>}
PrintLines == {<<"PRINT_BILL">>}
\* an empty line, as after the file's last newline
OtherLines == {<<"">>}

Lines ==
    AddLines \cup ShortAddLines \cup ProLines \cup CouponLines \cup BareCouponLines
        \cup LongCouponLines \cup PrintLines \cup OtherLines

\* parseInt on the quantity tokens
parseInt(s) ==
    CASE s = "-1" -> -1
      [] s = "0" -> 0
      [] s = "2" -> 2
      [] s = "4" -> 4

\* String.prototype.toLowerCase / toUpperCase on the coupon tokens
toLowerCase(s) ==
    CASE s = "DEAL_G20" -> "deal_g20"
      [] s = "Deal_g5" -> "deal_g5"
      [] s = "FOO" -> "foo"
      [] s = "" -> ""

toUpperCase(s) ==
    CASE s = "DEAL_G20" -> "DEAL_G20"
      [] s = "Deal_g5" -> "DEAL_G5"
      [] s = "FOO" -> "FOO"
      [] s = "" -> ""

\* ------------------------------------------------------------------ Programme
\* ProgrammeType[token]: undefined for a token that is no key
ProgrammeType(token) ==
    IF token \in {"CERTIFICATION", "DEGREE", "DIPLOMA"} THEN token ELSE Undefined

Programme(type, quantity) == [type |-> type, quantity |-> quantity]

getSingleCost(p) ==
    CASE p.type = "CERTIFICATION" -> 3000 * Cents
      [] p.type = "DEGREE" -> 5000 * Cents
      [] p.type = "DIPLOMA" -> 2500 * Cents
      [] OTHER -> 0

\* a variant that leaves the quantity out
getCost_unit(p) == getSingleCost(p)

getCost(p) == getSingleCost(p) * p.quantity

\* the rate in hundredths: 0.02, 0.03, 0.01
getDiscountRate(p) ==
    CASE p.type = "CERTIFICATION" -> 2
      [] p.type = "DEGREE" -> 3
      [] p.type = "DIPLOMA" -> 1
      [] OTHER -> 0

\* ------------------------------------------------------------------ strategies
\* a variant with the rates 20 and 5 in place of 0.20 and 0.05
DiscountStrategy_calculateDiscount_wholeRate(strategy, beforeDiscount) ==
    CASE strategy = "B4G1Discount" -> 0
      [] strategy = "DealG20Discount" -> IF beforeDiscount >= 0 THEN beforeDiscount * 20 ELSE 0
      [] strategy = "DealG5Discount" -> IF beforeDiscount >= 0 THEN beforeDiscount * 5 ELSE 0

\* a variant without the guard beforeDiscount >= 0
DiscountStrategy_calculateDiscount_unclamped(strategy, beforeDiscount) ==
    CASE strategy = "B4G1Discount" -> 0
      [] strategy = "DealG20Discount" -> (beforeDiscount * 20) \div 100
      [] strategy = "DealG5Discount" -> (beforeDiscount * 5) \div 100

\* DiscountStrategy.calculateDiscount of the three concrete classes
DiscountStrategy_calculateDiscount(strategy, beforeDiscount) ==
    CASE strategy = "B4G1Discount" -> 0
      [] strategy = "DealG20Discount" ->
            IF beforeDiscount >= 0 THEN (beforeDiscount * 20) \div 100 ELSE 0
      [] strategy = "DealG5Discount" ->
            IF beforeDiscount >= 0 THEN (beforeDiscount * 5) \div 100 ELSE 0

\* a variant that charges the fee at the threshold too
DefaultEnrollmentStrategy_calculateEnrollmentFee_inclusive(totalCost) ==
    IF totalCost <= DEFAULT_ENROLLMENT_FEE_THRESHOLD * Cents
    THEN DEFAULT_ENROLLMENT_FEE * Cents
    ELSE 0

DefaultEnrollmentStrategy_calculateEnrollmentFee(totalCost) ==
    IF totalCost < DEFAULT_ENROLLMENT_FEE_THRESHOLD * Cents
    THEN DEFAULT_ENROLLMENT_FEE * Cents
    ELSE 0

RECURSIVE ProMembershipDiscount_calculateDiscount(_)
ProMembershipDiscount_calculateDiscount(programmes) ==
    IF programmes = <<>> THEN 0
    ELSE LET n == Len(programmes)
             p == programmes[n]
         IN  ProMembershipDiscount_calculateDiscount(SubSeq(programmes, 1, n - 1))
                + (getDiscountRate(p) * getCost(p)) \div 100

\* ------------------------------------------------------------------ GeekdemyCart
\* the cart as main sets it up: the constructor, then the three default strategies
NewCart ==
    [ programmes |-> <<>>,
      discountStrategy |-> "B4G1Discount",
      enrollmentStrategy |-> "DefaultEnrollmentStrategy",
      proMembershipStrategy |-> "ProMembershipDiscount",
      proMembershipFee |-> 0,
      subtotal |-> 0,
      discount |-> 0,
      enrollmentFee |-> 0,
      proMembershipDiscount |-> 0,
      appliedCoupon |-> Null ]

setAppliedCoupon(c, coupon) == [c EXCEPT !.appliedCoupon = coupon]
setDiscountStrategy(c, strategy) == [c EXCEPT !.discountStrategy = strategy]
setProMembershipStrategy(c, strategy) == [c EXCEPT !.proMembershipStrategy = strategy]
\* a variant that adds the fee at every call
addProMembershipFee_accumulate(c) ==
    [c EXCEPT !.proMembershipFee = @ + PRO_MEMBERSHIP_FEE * Cents]
addProMembershipFee(c) == [c EXCEPT !.proMembershipFee = PRO_MEMBERSHIP_FEE * Cents]
cart_addProgramme(c, programme) == [c EXCEPT !.programmes = Append(@, programme)]

RECURSIVE SumCost(_)
SumCost(programmes) ==
    IF programmes = <<>> THEN 0
    ELSE LET n == Len(programmes)
         IN  SumCost(SubSeq(programmes, 1, n - 1)) + getCost(programmes[n])

calculateSubtotal(c) == [c EXCEPT !.subtotal = SumCost(c.programmes)]

\* a variant that computes the discount once, at activation, and keeps it
calculateProMembershipDiscount_snapshot(c) ==
    IF c.proMembershipFee > 0
    THEN c
    ELSE [c EXCEPT !.proMembershipDiscount =
                        ProMembershipDiscount_calculateDiscount(c.programmes)]

calculateProMembershipDiscount(c) ==
    IF c.proMembershipFee > 0
    THEN [c EXCEPT !.proMembershipDiscount =
                        ProMembershipDiscount_calculateDiscount(c.programmes)]
    ELSE c

isDiscountableProgramme(type) ==
    type # Null /\ type \in {"CERTIFICATION", "DEGREE", "DIPLOMA"}

RECURSIVE SumDiscountableQuantity(_)
SumDiscountableQuantity(programmes) ==
    IF programmes = <<>> THEN 0
    ELSE LET n == Len(programmes)
             p == programmes[n]
         IN  SumDiscountableQuantity(SubSeq(programmes, 1, n - 1))
                + (IF isDiscountableProgramme(p.type) THEN p.quantity ELSE 0)

\* a variant that counts the items of every kind
RECURSIVE SumQuantity(_)
SumQuantity(programmes) ==
    IF programmes = <<>> THEN 0
    ELSE SumQuantity(Tail(programmes)) + Head(programmes).quantity

totalDiscountableQuantity_all(c) == SumQuantity(c.programmes)

totalDiscountableQuantity(c) == SumDiscountableQuantity(c.programmes)

Min(a, b) == IF a <= b THEN a ELSE b

RECURSIVE MinDiscountableCost(_)
MinDiscountableCost(programmes) ==
    IF programmes = <<>> THEN Infinity
    ELSE LET n == Len(programmes)
             p == programmes[n]
             rest == MinDiscountableCost(SubSeq(programmes, 1, n - 1))
         IN  IF isDiscountableProgramme(p.type) THEN Min(rest, getSingleCost(p)) ELSE rest

\* a variant that takes the first discountable item's unit cost
calculateMinimumDiscountableProgrammeCost_first(c) ==
    LET known == SelectSeq(c.programmes, LAMBDA p : isDiscountableProgramme(p.type))
    IN  IF known = <<>> THEN Infinity ELSE getSingleCost(Head(known))

calculateMinimumDiscountableProgrammeCost(c) == MinDiscountableCost(c.programmes)

calculateDiscount(c) ==
    IF totalDiscountableQuantity(c) >= MIN_DISCOUNTABLE_QUANTITY
    THEN [c EXCEPT !.discount = calculateMinimumDiscountableProgrammeCost(c)]
    ELSE LET beforeDiscount ==
                 c.subtotal + c.enrollmentFee + c.proMembershipFee - c.proMembershipDiscount
         IN  [c EXCEPT !.discount =
                  DiscountStrategy_calculateDiscount(c.discountStrategy, beforeDiscount)]

calculateEnrollmentFee(c) ==
    [c EXCEPT !.enrollmentFee = DefaultEnrollmentStrategy_calculateEnrollmentFee(c.subtotal)]

\* a variant of the total before discount that leaves the membership fee out
totalBeforeDiscount_noFee(c) == c.subtotal + c.enrollmentFee - c.proMembershipDiscount

\* calculateTotalFare: the cart it leaves (this.discount is assigned) and its value
totalBeforeDiscount(c) ==
    c.subtotal + c.enrollmentFee + c.proMembershipFee - c.proMembershipDiscount

calculateTotalFare_cart(c) ==
    IF totalDiscountableQuantity(c) >= MIN_DISCOUNTABLE_QUANTITY
    THEN [c EXCEPT !.discount = calculateMinimumDiscountableProgrammeCost(c)]
    ELSE [c EXCEPT !.discount =
              DiscountStrategy_calculateDiscount(c.discountStrategy, totalBeforeDiscount(c))]

calculateTotalFare(c) == totalBeforeDiscount(c) - calculateTotalFare_cart(c).discount

\* ------------------------------------------------------------------ handlers
\* The handlers act on the cart and on the global counter `count`; m is the
\* pair of them, with `thrown` set when the handler throws a TypeError.
Machine(c, n, t) == [cart |-> c, count |-> n, thrown |-> t]

\* tokens[i], JavaScript's 0-based index: undefined past the end
Token(tokens, i) == IF i + 1 <= Len(tokens) THEN tokens[i + 1] ELSE Undefined

\* a variant that counts only the items of a known kind
addProgramme_known(m, tokens) ==
    IF Len(tokens) = 3
    THEN LET programmeType == ProgrammeType(Token(tokens, 1))
             quantity == parseInt(Token(tokens, 2))
         IN  [m EXCEPT !.count = IF programmeType = Undefined THEN @ ELSE @ + quantity,
                       !.cart = cart_addProgramme(@, Programme(programmeType, quantity))]
    ELSE m

addProgramme(m, tokens) ==
    IF Len(tokens) = 3
    THEN LET programmeType == ProgrammeType(Token(tokens, 1))
             quantity == parseInt(Token(tokens, 2))
         IN  [m EXCEPT !.count = @ + quantity,
                       !.cart = cart_addProgramme(@, Programme(programmeType, quantity))]
    ELSE m

\* discountStrategies[coupon.toLowerCase()]: undefined for an unknown key
discountStrategies(key) ==
    CASE key = "deal_g20" -> "DealG20Discount"
      [] key = "deal_g5" -> "DealG5Discount"
      [] OTHER -> Undefined

\* a variant that keeps the coupon's case in the label
applyOtherCoupon_rawLabel(m, coupon) ==
    IF coupon = Undefined
    THEN [m EXCEPT !.thrown = TRUE]
    ELSE LET discountStrategy == discountStrategies(toLowerCase(coupon))
         IN  IF discountStrategy # Undefined
             THEN [m EXCEPT !.cart = setAppliedCoupon(
                                         setDiscountStrategy(@, discountStrategy), coupon)]
             ELSE m

applyOtherCoupon(m, coupon) ==
    IF coupon = Undefined
    THEN \* undefined.toLowerCase(): TypeError
         [m EXCEPT !.thrown = TRUE]
    ELSE LET discountStrategy == discountStrategies(toLowerCase(coupon))
         IN  IF discountStrategy # Undefined
             THEN [m EXCEPT !.cart = setAppliedCoupon(
                                         setDiscountStrategy(@, discountStrategy),
                                         toUpperCase(coupon))]
             ELSE m

\* a variant with count > MIN_DISCOUNTABLE_QUANTITY
applyCoupon_strict(m, tokens) ==
    IF m.cart.appliedCoupon = Null /\ m.count > MIN_DISCOUNTABLE_QUANTITY
          /\ Len(tokens) = 2
    THEN [m EXCEPT !.cart = setAppliedCoupon(@, "B4G1")]
    ELSE IF m.cart.appliedCoupon = Null
         THEN applyOtherCoupon(m, Token(tokens, 1))
         ELSE m

\* a variant whose second branch does not test the applied coupon
applyCoupon_again(m, tokens) ==
    IF m.cart.appliedCoupon = Null /\ m.count >= MIN_DISCOUNTABLE_QUANTITY
          /\ Len(tokens) = 2
    THEN [m EXCEPT !.cart = setAppliedCoupon(@, "B4G1")]
    ELSE applyOtherCoupon(m, Token(tokens, 1))

\* a variant whose first branch does not test the applied coupon
applyCoupon_relabel(m, tokens) ==
    IF m.count >= MIN_DISCOUNTABLE_QUANTITY /\ Len(tokens) = 2
    THEN [m EXCEPT !.cart = setAppliedCoupon(@, "B4G1")]
    ELSE IF m.cart.appliedCoupon = Null
         THEN applyOtherCoupon(m, Token(tokens, 1))
         ELSE m

\* a variant that tests the cart's discountable quantity in place of count
applyCoupon_discountable(m, tokens) ==
    IF m.cart.appliedCoupon = Null
          /\ totalDiscountableQuantity(m.cart) >= MIN_DISCOUNTABLE_QUANTITY
          /\ Len(tokens) = 2
    THEN [m EXCEPT !.cart = setAppliedCoupon(@, "B4G1")]
    ELSE IF m.cart.appliedCoupon = Null
         THEN applyOtherCoupon(m, Token(tokens, 1))
         ELSE m

applyCoupon(m, tokens) ==
    IF m.cart.appliedCoupon = Null /\ m.count >= MIN_DISCOUNTABLE_QUANTITY
          /\ Len(tokens) = 2
    THEN [m EXCEPT !.cart = setAppliedCoupon(@, "B4G1")]
    ELSE IF m.cart.appliedCoupon = Null
         THEN applyOtherCoupon(m, Token(tokens, 1))
         ELSE m

applyProMembershipCoupon(m) ==
    [m EXCEPT !.cart = addProMembershipFee(
                           setProMembershipStrategy(
                               calculateProMembershipDiscount(@),
                               "ProMembershipDiscount"))]

processCommand(m, tokens) ==
    CASE Token(tokens, 0) = "ADD_PROGRAMME" -> addProgramme(m, tokens)
      [] Token(tokens, 0) = "PRO_MEMBERSHIP" -> applyProMembershipCoupon(m)
      [] Token(tokens, 0) = "APPLY_COUPON" -> applyCoupon(m, tokens)
      [] Token(tokens, 0) = "PRINT_BILL" -> m
      [] OTHER -> m

\* printBill: the six lines it prints, and the cart the six calls leave.
\* An amount is a whole number of hundredths, which toFixed(2) prints as it is.
printBill_carts(c) ==
    LET c1 == calculateSubtotal(c)
        c2 == calculateProMembershipDiscount(c1)
        c3 == calculateEnrollmentFee(c2)
        c4 == calculateDiscount(c3)
        c5 == calculateTotalFare_cart(c4)
    IN  <<c1, c2, c3, c4, c5>>

printBill(c) ==
    LET cs == printBill_carts(c)
    IN  [ SUB_TOTAL |-> cs[1].subtotal,
          TOTAL_PRO_DISCOUNT |-> cs[2].proMembershipDiscount,
          PRO_MEMBERSHIP_FEE_LINE |-> cs[2].proMembershipFee,
          ENROLLMENT_FEE |-> cs[3].enrollmentFee,
          COUPON |-> cs[3].appliedCoupon,
          COUPON_DISCOUNT |-> cs[4].discount,
          TOTAL |-> calculateTotalFare(cs[4]) ]

\* ------------------------------------------------------------------ main
VARIABLES
    cart,    \* the GeekdemyCart main creates
    count,   \* the global counter of line 305
    done,    \* the lines cleanLines.forEach has processed, in order
    pc,      \* "reading": in the forEach; "printed": after printBill;
             \* "crashed": a handler threw and the process died
    bill     \* what printBill printed; <<>> before

vars == <<cart, count, done, pc, bill>>

Init ==
    /\ cart = NewCart
    /\ count = 0
    /\ done = <<>>
    /\ pc = "reading"
    /\ bill = <<>>

\* one iteration of cleanLines.forEach(cleanLine => processCommand(cart, cleanLine));
\* an exception leaves the forEach and the callback, and the process dies
Process(line) ==
    LET m == processCommand(Machine(cart, count, FALSE), line)
    IN  /\ cart' = m.cart
        /\ count' = m.count
        /\ pc' = IF m.thrown THEN "crashed" ELSE "reading"
        /\ done' = Append(done, line)
        /\ bill' = bill

AddProgrammeLine ==
    /\ pc = "reading" /\ Len(done) < MaxLines
    /\ \E line \in AddLines \cup ShortAddLines : Process(line)

ProMembershipLine ==
    /\ pc = "reading" /\ Len(done) < MaxLines
    /\ \E line \in ProLines : Process(line)

ApplyCouponLine ==
    /\ pc = "reading" /\ Len(done) < MaxLines
    /\ \E line \in CouponLines \cup BareCouponLines \cup LongCouponLines : Process(line)

PrintBillLine ==
    /\ pc = "reading" /\ Len(done) < MaxLines
    /\ \E line \in PrintLines : Process(line)

OtherLine ==
    /\ pc = "reading" /\ Len(done) < MaxLines
    /\ \E line \in OtherLines : Process(line)

\* the forEach is over (the file had Len(done) lines): printBill(cart)
PrintBill ==
    /\ pc = "reading"
    /\ Len(done) >= 1    \* data.split("\n") has one line or more
    /\ bill' = printBill(cart)
    /\ cart' = printBill_carts(cart)[5]
    /\ pc' = "printed"
    /\ UNCHANGED <<count, done>>

Next ==
    \/ AddProgrammeLine
    \/ ProMembershipLine
    \/ ApplyCouponLine
    \/ PrintBillLine
    \/ OtherLine
    \/ PrintBill

Spec == Init /\ [][Next]_vars

\* the same run over inputs that may also hold ADD_PROGRAMME lines of quantity 0
AddZeroProgrammeLine ==
    /\ pc = "reading" /\ Len(done) < MaxLines
    /\ \E line \in ZeroAddLines : Process(line)

NextZero ==
    \/ Next
    \/ AddZeroProgrammeLine

SpecZero == Init /\ [][NextZero]_vars

\* main on a whole input: cleanLines.forEach(processCommand) from the new cart
\* and count = 0, left at the first handler that throws
RECURSIVE forEach(_, _)
forEach(m, lines) ==
    IF lines = <<>> \/ m.thrown THEN m
    ELSE forEach(processCommand(m, Head(lines)), Tail(lines))

\* the bill main prints for the input `lines`; <<>> when a handler threw
main(lines) ==
    LET m == forEach(Machine(NewCart, 0, FALSE), lines)
    IN  IF m.thrown THEN <<>> ELSE printBill(m.cart)

\* The compute operations of the cart, by name: the cart a call leaves and the
\* value it returns.
ComputeOps ==
    { "calculateSubtotal", "calculateProMembershipDiscount", "calculateEnrollmentFee",
      "calculateDiscount", "calculateTotalFare" }

Call(op, c) ==
    CASE op = "calculateSubtotal" -> calculateSubtotal(c)
      [] op = "calculateProMembershipDiscount" -> calculateProMembershipDiscount(c)
      [] op = "calculateEnrollmentFee" -> calculateEnrollmentFee(c)
      [] op = "calculateDiscount" -> calculateDiscount(c)
      [] op = "calculateTotalFare" -> calculateTotalFare_cart(c)

Return(op, c) ==
    CASE op = "calculateSubtotal" -> calculateSubtotal(c).subtotal
      [] op = "calculateProMembershipDiscount" ->
            calculateProMembershipDiscount(c).proMembershipDiscount
      [] op = "calculateEnrollmentFee" -> calculateEnrollmentFee(c).enrollmentFee
      [] op = "calculateDiscount" -> calculateDiscount(c).discount
      [] op = "calculateTotalFare" -> calculateTotalFare(c)

\* ------------------------------------------------------------------ vocabulary of the claims
\* The catalog as the specification states it, in hundredths.
KnownKinds == {"CERTIFICATION", "DEGREE", "DIPLOMA"}

UnitPrice(kind) ==
    CASE kind = "CERTIFICATION" -> 300000
      [] kind = "DEGREE" -> 500000
      [] kind = "DIPLOMA" -> 250000
      [] OTHER -> 0

\* the membership discount of one unit of a kind: rate x unit price
UnitMemberDiscount(kind) ==
    CASE kind = "CERTIFICATION" -> 6000
      [] kind = "DEGREE" -> 15000
      [] kind = "DIPLOMA" -> 2500
      [] OTHER -> 0

IsLine(line, command) == Len(line) >= 1 /\ line[1] = command
IsNamedCoupon(line) == IsLine(line, "APPLY_COUPON") /\ Len(line) = 2
IsAdd(line) == IsLine(line, "ADD_PROGRAMME") /\ Len(line) = 3
ProSeen == \E i \in 1..Len(done) : IsLine(done[i], "PRO_MEMBERSHIP")
Printed == pc = "printed"
LastLine == done[Len(done)]

\* items 1..n of the cart
RECURSIVE KnownQuantity(_, _)
KnownQuantity(items, n) ==
    IF n = 0 THEN 0
    ELSE KnownQuantity(items, n - 1)
            + (IF items[n].type \in KnownKinds THEN items[n].quantity ELSE 0)

RECURSIVE MemberDiscount(_, _)
MemberDiscount(items, n) ==
    IF n = 0 THEN 0
    ELSE MemberDiscount(items, n - 1) + UnitMemberDiscount(items[n].type) * items[n].quantity

KnownPrices(items) ==
    {UnitPrice(items[i].type) : i \in {j \in 1..Len(items) : items[j].type \in KnownKinds}}

IsMinKnownPrice(items, x) == x \in KnownPrices(items) /\ \A y \in KnownPrices(items) : x <= y

DiscountableQuantity == KnownQuantity(cart.programmes, Len(cart.programmes))

\* the amount the bill shows before the coupon discount
BillBeforeDiscount ==
    bill.SUB_TOTAL + bill.ENROLLMENT_FEE + bill.PRO_MEMBERSHIP_FEE_LINE
        - bill.TOTAL_PRO_DISCOUNT

\* what the selected policy gives on an amount
PolicyAmount(strategy, amount) ==
    CASE strategy = "B4G1Discount" -> 0
      [] strategy = "DealG20Discount" -> IF amount >= 0 THEN amount \div 5 ELSE 0
      [] strategy = "DealG5Discount" -> IF amount >= 0 THEN amount \div 20 ELSE 0

\* ------------------------------------------------------------------ C1
\* C1: on every bill, the TOTAL line equals SUB_TOTAL + ENROLLMENT_FEE +
\* PRO_MEMBERSHIP_FEE - TOTAL_PRO_DISCOUNT - COUPON_DISCOUNT, each term being
\* the value printed on its own line of the same bill.
C1_TotalIsSumOfLines ==
    Printed => bill.TOTAL = BillBeforeDiscount - bill.COUPON_DISCOUNT

\* a bill with a membership discount and a percentage coupon discount
C1_Witness ==
    /\ Printed
    /\ bill.TOTAL_PRO_DISCOUNT > 0
    /\ DiscountableQuantity < 4
    /\ bill.COUPON_DISCOUNT > 0
    /\ bill.COUPON = "DEAL_G20"

\* ------------------------------------------------------------------ C2
\* C2: on every bill, when the quantities of the Certification, Degree and
\* Diploma items of the cart sum to 4 or more, the discount is the least unit
\* price among those items, whatever policy is selected; when they sum to less
\* than 4 the discount is the selected policy's amount, not the override.
C2_BulkOverride ==
    Printed =>
        IF DiscountableQuantity >= 4
        THEN IsMinKnownPrice(cart.programmes, bill.COUPON_DISCOUNT)
        ELSE bill.COUPON_DISCOUNT = PolicyAmount(cart.discountStrategy, BillBeforeDiscount)

\* the override under a selected 20% policy, the cheapest kind not the first item
C2_Witness ==
    /\ Printed
    /\ DiscountableQuantity >= 4
    /\ cart.discountStrategy = "DealG20Discount"
    /\ Len(cart.programmes) >= 2
    /\ bill.COUPON_DISCOUNT < UnitPrice(cart.programmes[1].type)
    /\ bill.COUPON_DISCOUNT # PolicyAmount(cart.discountStrategy, BillBeforeDiscount)

\* ------------------------------------------------------------------ C3
\* C3: on every bill where the discountable quantity is below 4, the discount
\* is 0 under the default policy, and under DEAL_G20 (DEAL_G5) it is 20% (5%)
\* of subtotal + enrollment fee + membership fee - membership discount when
\* that amount is >= 0 and 0 when it is negative; it is never negative.
C3_PolicyDiscount ==
    (Printed /\ DiscountableQuantity < 4) =>
        /\ bill.COUPON_DISCOUNT >= 0
        /\ cart.discountStrategy = "B4G1Discount" => bill.COUPON_DISCOUNT = 0
        /\ (cart.discountStrategy = "DealG20Discount" /\ BillBeforeDiscount >= 0)
                => 100 * bill.COUPON_DISCOUNT = 20 * BillBeforeDiscount
        /\ (cart.discountStrategy = "DealG5Discount" /\ BillBeforeDiscount >= 0)
                => 100 * bill.COUPON_DISCOUNT = 5 * BillBeforeDiscount
        /\ BillBeforeDiscount < 0 => bill.COUPON_DISCOUNT = 0

\* a percentage coupon on a negative amount (a negative quantity)
C3_Witness ==
    /\ Printed
    /\ DiscountableQuantity < 4
    /\ cart.discountStrategy = "DealG5Discount"
    /\ BillBeforeDiscount < 0
    /\ bill.COUPON_DISCOUNT = 0

\* ------------------------------------------------------------------ C4
\* the step that processes `line`
Processes(line) == pc = "reading" /\ done' = Append(done, line)

C6_CouponSetOnce ==
    [][cart.appliedCoupon # Null
          => /\ cart'.appliedCoupon = cart.appliedCoupon
             /\ cart'.discountStrategy = cart.discountStrategy]_vars

\* a second, recognised coupon after the first one was applied: the first stays
C6_Witness ==
    /\ Len(done) = 3
    /\ done[1] = <<"APPLY_COUPON", "DEAL_G20">>
    /\ done[2] = <<"APPLY_COUPON", "Deal_g5">>
    /\ done[3] = <<"APPLY_COUPON">>
    /\ pc = "reading"
    /\ cart.appliedCoupon = "DEAL_G20"
    /\ cart.discountStrategy = "DealG20Discount"

\* ------------------------------------------------------------------ C7
\* C7: no line makes the run fail: processing reaches the end of the input
\* and the bill is printed, whatever the lines are.
C7_NoFatalError == pc # "crashed"

\* ------------------------------------------------------------------ C8
\* the input lines in another order: line k of the result is line f[k] of `lines`
Reordered(lines, f) == [k \in 1..Len(lines) |-> lines[f[k]]]

\* the orders of n lines, for every n an input can have
OrdersOf == [n \in 0..MaxLines |-> Permutations(1..n)]

Orders(lines) == OrdersOf[Len(lines)]

\* C8 as stated: a run over ADD_PROGRAMME, PRO_MEMBERSHIP and APPLY_COUPON
\* <NAME> lines prints the same discount and the same total as the run over
\* the same lines in any other order.
C8_OrderIndependent ==
    (Printed /\ \A i \in 1..Len(done) : done[i] \in AddLines \cup ProLines \cup CouponLines)
        => \A f \in Orders(done) :
              LET other == main(Reordered(done, f))
              IN  /\ other.COUPON_DISCOUNT = bill.COUPON_DISCOUNT
                  /\ other.TOTAL = bill.TOTAL

\* f keeps every APPLY_COUPON line in its place and every ADD_PROGRAMME line
\* on the side of each APPLY_COUPON line where it was
KeepsCoupons(lines, f) ==
    \A i \in 1..Len(lines) :
        IsLine(lines[i], "APPLY_COUPON") =>
            /\ f[i] = i
            /\ \A k \in 1..Len(lines) :
                  IsLine(lines[f[k]], "ADD_PROGRAMME") => ((k < i) <=> (f[k] < i))

\* C8 (amended): the bill does not depend on the order of the ADD_PROGRAMME
\* lines between two APPLY_COUPON lines nor on where the PRO_MEMBERSHIP (and
\* the ignored) lines stand: a run prints the same bill as the run over the
\* same lines in any order that keeps every APPLY_COUPON line in its place
\* with the same ADD_PROGRAMME lines before it.
C8_OrderOfItemsAndMembership ==
    Printed =>
        \A f \in Orders(done) :
            KeepsCoupons(done, f) => main(Reordered(done, f)) = bill

\* a bill after a membership line, an item and a coupon, which the run in
\* another allowed order (the item before the membership line) prints too
C8_Witness ==
    /\ Printed
    /\ Len(done) = 3
    /\ done[1] = <<"PRO_MEMBERSHIP">>
    /\ IsAdd(done[2])
    /\ done[3] = <<"APPLY_COUPON", "DEAL_G20">>
    /\ bill.TOTAL_PRO_DISCOUNT > 0
    /\ \E f \in Orders(done) :
          /\ KeepsCoupons(done, f)
          /\ Reordered(done, f) # done
          /\ main(Reordered(done, f)) = bill

\* ------------------------------------------------------------------ C9
\* C9: on every bill, the membership discount is, when a PRO_MEMBERSHIP line
\* was processed at any point of the run, the sum over all items of the cart of
\* discountRate(kind) x unitPrice(kind) x quantity, items added after that line
\* included; it is 0 when no PRO_MEMBERSHIP line was processed.
C9_MembershipDiscount ==
    Printed =>
        bill.TOTAL_PRO_DISCOUNT =
            IF ProSeen THEN MemberDiscount(cart.programmes, Len(cart.programmes)) ELSE 0

\* PRO_MEMBERSHIP first, the items after it, and they are discounted
C9_Witness ==
    /\ Printed
    /\ Len(done) = 3
    /\ done[1] = <<"PRO_MEMBERSHIP">>
    /\ IsAdd(done[2])
    /\ IsAdd(done[3])
    /\ cart.programmes[1].type # cart.programmes[2].type
    /\ bill.TOTAL_PRO_DISCOUNT =
          UnitMemberDiscount(cart.programmes[1].type) * cart.programmes[1].quantity
            + UnitMemberDiscount(cart.programmes[2].type) * cart.programmes[2].quantity
    /\ bill.TOTAL_PRO_DISCOUNT > 0

\* ------------------------------------------------------------------ C10
\* C10: in every state the membership fee is 0 when no PRO_MEMBERSHIP line has
\* been processed and 200 when one or more have: it never exceeds 200, never
\* returns to 0, and the bill's PRO_MEMBERSHIP_FEE line is that fee.
C10_MembershipFee ==
    /\ cart.proMembershipFee = (IF ProSeen THEN 20000 ELSE 0)
    /\ Printed => bill.PRO_MEMBERSHIP_FEE_LINE = cart.proMembershipFee

\* PRO_MEMBERSHIP twice and another line after: the fee is 200
C10_Witness ==
    /\ Printed
    /\ Len(done) = 3
    /\ done[1] = <<"PRO_MEMBERSHIP">>
    /\ done[2] = <<"PRO_MEMBERSHIP">>
    /\ IsAdd(done[3])
    /\ bill.PRO_MEMBERSHIP_FEE_LINE = 20000

\* ------------------------------------------------------------------ C11
\* C11: right after a line that adds an item, every compute operation of the
\* cart returns the same value whether or not another compute operation was
\* called just before it: in particular calculateTotalFare returns the same
\* total with or without a preceding calculateSubtotal or calculateEnrollmentFee.
C11_ComputeIsPure ==
    (pc = "reading" /\ Len(done) >= 1 /\ IsAdd(LastLine)) =>
        \A op \in ComputeOps : \A before \in ComputeOps :
            Return(op, Call(before, cart)) = Return(op, cart)

\* ------------------------------------------------------------------ C12
\* C12: a bill is printed only by a PRINT_BILL line: every bill printed is
\* the bill of the cart as it was when a PRINT_BILL line of the input was
\* processed.
C12_PrintBillTriggers ==
    Printed =>
        \E i \in 1..Len(done) :
            /\ IsLine(done[i], "PRINT_BILL")
            /\ bill = main(SubSeq(done, 1, i))

\* ------------------------------------------------------------------ C13
\* the quantity written on an ADD_PROGRAMME line
QuantityOf(token) ==
    CASE token = "-1" -> 0 - 1
      [] token = "0" -> 0
      [] token = "2" -> 2
      [] token = "4" -> 4

\* the sum of the quantities of items 1..n, of every kind
RECURSIVE TotalQuantity(_, _)
TotalQuantity(items, n) ==
    IF n = 0 THEN 0 ELSE TotalQuantity(items, n - 1) + items[n].quantity

\* the ADD_PROGRAMME lines of the input that add an item, in order
AddedLines == SelectSeq(done, IsAdd)

\* C13: in every state the running item count is the sum of the quantities of
\* all items of the cart, Unknown-kind items included, and the items of the
\* cart are those of the ADD_PROGRAMME lines processed, in order: the count and
\* the item list change together, and only on an ADD_PROGRAMME line.
C13_RunningCount ==
    /\ count = TotalQuantity(cart.programmes, Len(cart.programmes))
    /\ Len(cart.programmes) = Len(AddedLines)
    /\ \A i \in 1..Len(AddedLines) :
          cart.programmes[i].quantity = QuantityOf(AddedLines[i][3])

\* an Unknown-kind item counted: the count exceeds the discountable quantity,
\* and lines of other commands came after the items
C13_Witness ==
    /\ Len(done) = 3
    /\ IsAdd(done[1])
    /\ IsAdd(done[2])
    /\ ~IsAdd(done[3])
    /\ count >= 4
    /\ DiscountableQuantity > 0
    /\ DiscountableQuantity < count

\* ------------------------------------------------------------------ C14
\* the sum over the first n lines of unitPrice(kind) x quantity
RECURSIVE PriceOfLines(_, _)
PriceOfLines(lines, n) ==
    IF n = 0 THEN 0
    ELSE PriceOfLines(lines, n - 1) + UnitPrice(lines[n][2]) * QuantityOf(lines[n][3])

ExpectedSubtotal == PriceOfLines(AddedLines, Len(AddedLines))

\* C14: on every bill, SUB_TOTAL is the sum over the ADD_PROGRAMME lines
\* processed of unitPrice(kind) x quantity, with the unit prices 3000, 5000
\* and 2500 of Certification, Degree and Diploma and 0 for any other kind.
C14_Subtotal == Printed => bill.SUB_TOTAL = ExpectedSubtotal

\* three items of three kinds, one of them unrecognised
C14_Witness ==
    /\ Printed
    /\ Len(AddedLines) = 3
    /\ AddedLines[1][2] = "MASTERS" /\ AddedLines[1][3] = "4"
    /\ AddedLines[2][2] = "DEGREE" /\ AddedLines[2][3] = "2"
    /\ AddedLines[3][2] = "DIPLOMA" /\ AddedLines[3][3] = "-1"
    /\ bill.SUB_TOTAL = 750000

\* ------------------------------------------------------------------ C15
\* C15: on every bill, ENROLLMENT_FEE is 500 when the subtotal of the items
\* is below 6666 and 0 otherwise, whatever the membership and the coupon; the
\* rule gives 0 at exactly 6666 and 500 one hundredth below.
C15_EnrollmentFee ==
    /\ Printed => bill.ENROLLMENT_FEE = (IF ExpectedSubtotal < 666600 THEN 50000 ELSE 0)
    /\ DefaultEnrollmentStrategy_calculateEnrollmentFee(666600) = 0
    /\ DefaultEnrollmentStrategy_calculateEnrollmentFee(666599) = 50000

\* the fee charged on a subtotal of 6000, with the membership and a coupon
C15_Witness ==
    /\ Printed
    /\ ProSeen
    /\ bill.COUPON = "DEAL_G20"
    /\ bill.SUB_TOTAL = 600000
    /\ bill.ENROLLMENT_FEE = 50000

\* ------------------------------------------------------------------ C16
\* C16: in every state the coupon label and the discount policy agree: the
\* policy is the 20% one iff the label is DEAL_G20, the 5% one iff the label
\* is DEAL_G5, and the zero-discount one iff the label is null or B4G1.
C16_LabelMatchesPolicy ==
    /\ cart.discountStrategy = "DealG20Discount" <=> cart.appliedCoupon = "DEAL_G20"
    /\ cart.discountStrategy = "DealG5Discount" <=> cart.appliedCoupon = "DEAL_G5"
    /\ cart.discountStrategy = "B4G1Discount" <=> cart.appliedCoupon \in {Null, "B4G1"}

\* the label B4G1 set by a line that names Deal_g5, the default policy kept,
\* and a later DEAL_G20 line ignored
C16_Witness ==
    /\ Len(done) = 3
    /\ IsAdd(done[1])
    /\ done[2] = <<"APPLY_COUPON", "Deal_g5">>
    /\ done[3] = <<"APPLY_COUPON", "DEAL_G20", "">>
    /\ cart.appliedCoupon = "B4G1"
    /\ cart.discountStrategy = "B4G1Discount"

BeforeLine(i) == forEach(Machine(NewCart, 0, FALSE), SubSeq(done, 1, i - 1))

\* line i is an APPLY_COUPON <NAME> line met with no coupon applied and a
\* running count >= 4
BulkLabelLine(i) ==
    /\ IsNamedCoupon(done[i])
    /\ BeforeLine(i).cart.appliedCoupon = Null
    /\ BeforeLine(i).count >= 4

C18_OverrideIsAPrice ==
    totalDiscountableQuantity(cart) >= MIN_DISCOUNTABLE_QUANTITY =>
        /\ KnownPrices(cart.programmes) # {}
        /\ calculateMinimumDiscountableProgrammeCost(cart) \in {250000, 300000, 500000}
        /\ Printed => bill.COUPON_DISCOUNT \in {250000, 300000, 500000}

\* the override on a cart with an Unknown item, an item of quantity 0 or less
\* whose price is the override amount, and the items that reach 4
C18_Witness ==
    /\ Printed
    /\ totalDiscountableQuantity(cart) >= MIN_DISCOUNTABLE_QUANTITY
    /\ Len(cart.programmes) = 3
    /\ cart.programmes[1].type = Undefined
    /\ cart.programmes[2].type = "DIPLOMA" /\ cart.programmes[2].quantity = 0
    /\ cart.programmes[3].type = "DEGREE"
    /\ bill.COUPON_DISCOUNT = 250000

\* ------------------------------------------------------------------ C19
NoNegativeQuantity == \A i \in 1..Len(cart.programmes) : cart.programmes[i].quantity >= 0

\* C19: on every bill of a run whose ADD_PROGRAMME quantities are all
\* non-negative, the discount is at most subtotal + enrollment fee +
\* membership fee - membership discount, and the total is not negative.
C19_DiscountWithinTotal ==
    (Printed /\ NoNegativeQuantity) =>
        /\ bill.COUPON_DISCOUNT <= BillBeforeDiscount
        /\ bill.TOTAL >= 0

\* the membership, an item of quantity 0 that sets the override amount and
\* the items that reach 4
C19_Witness ==
    /\ Printed
    /\ NoNegativeQuantity
    /\ ProSeen
    /\ Len(cart.programmes) = 2
    /\ cart.programmes[1].quantity = 0
    /\ bill.COUPON_DISCOUNT = UnitPrice(cart.programmes[1].type)
    /\ bill.COUPON_DISCOUNT > 0
    /\ bill.TOTAL > 0

====
